---- MODULE Spec2Model ----
(***************************************************************************)
(* The soldier CRUD service: the DataLoader (DAL.py) over one MongoDB      *)
(* collection, the pydantic models (models.py), the /soldiersdb routes     *)
(* (soldiers.py) and the lifespan and health endpoints (main.py).          *)
(*                                                                         *)
(* A Python Optional[T] is a sequence of length at most one: None is <<>>  *)
(* and a value v is <<v>>.                                                 *)
(***************************************************************************)
EXTENDS Integers, Sequences, FiniteSets

\* ------------------------------------------------------------------ bounds
MaxID == 2          \* business IDs and path ids range over 0..MaxID
MaxInserts == 2     \* documents the store generates an _id for in one run
MaxPending == 1     \* create requests suspended between insert_one and find_one

\* ------------------------------------------------------------------ values
None == <<>>
Some(v) == <<v>>

\* Sample values of the four SoldierBase fields.
FirstNames == {"A"}
LastNames == {"B"}
PhoneNumbers == {1234567}
Ranks == {"Cpl", "Sgt"}

IDs == 0..MaxID

\* The soldier_id path parameter of the id-keyed routes: any integer.
PathIDs == {0 - 1} \cup IDs

\* models.py SoldierCreate: every field required and typed (no None).
SoldierCreate ==
    [ID : IDs, first_name : {Some(v) : v \in FirstNames},
     last_name : {Some(v) : v \in LastNames},
     phone_number : {Some(v) : v \in PhoneNumbers},
     rank : {Some(v) : v \in Ranks}]

\* models.py SoldierUpdate: every field Optional with default None.  A field
\* is either unset (<<>>) or set (<<x>>) to x, where x is None or a value:
\* pydantic keeps the set of fields the body supplied.  The sample bodies
\* supply a value in any subset of the fields, and an explicit null in
\* phone_number (the integer field) and in rank (a string field).
Unset == <<>>
SetTo(S) == {<<Some(v)>> : v \in S}
SetToNone == <<None>>
SoldierUpdate ==
    [first_name : {Unset} \cup SetTo(FirstNames),
     last_name : {Unset} \cup SetTo(LastNames),
     phone_number : {Unset, SetToNone} \cup SetTo(PhoneNumbers),
     rank : {Unset, SetToNone} \cup SetTo(Ranks)]

UpdateFields == {"first_name", "last_name", "phone_number", "rank"}

\* item.model_dump(): the dict of a SoldierCreate.
ModelDump(soldier) == soldier

\* Mutant: model_dump() without exclude_unset, every unset field dumped as None.
ModelDumpAll(u) ==
    [f \in UpdateFields |-> IF u[f] = Unset THEN None ELSE u[f][1]]

\* item_update.model_dump(exclude_unset=True): only the supplied fields,
\* an explicitly supplied null included.
ModelDumpExcludeUnset(u) ==
    [f \in {g \in UpdateFields : u[g] # Unset} |-> u[f][1]]

\* The store's ObjectId and the string str() makes of it.
ObjectId(n) == <<"ObjectId", n>>
str(oid) == <<"str", oid[2]>>

\* models.py SoldierInDB, the response model: id (alias _id) a string, ID
\* present, first_name, last_name, rank strings and phone_number an integer
\* (none of them None).
SoldierInDB(doc) ==
    /\ doc._id[1] = "str"
    /\ doc.first_name # None
    /\ doc.last_name # None
    /\ doc.phone_number # None
    /\ doc.rank # None

\* ------------------------------------------------------------------ state
VARIABLES
    phase,        \* "startup" | "serving" | "shutdown" (main.py lifespan)
    client,       \* DataLoader.client: "None" | "open" | "closed"
    db,           \* DataLoader.db: "None" | "handle"
    collection,   \* DataLoader.collection: "None" | "handle"
    connectFault, \* the step of connect() that failed: "unrun" | "none" | ...
    uniqueIndex,  \* the store has the unique index on ID
    docs,         \* the collection's documents in natural (insertion) order
    nextOid,      \* the number of the next ObjectId the store generates
    pending,      \* create requests between insert_one and find_one
    last          \* the last request answered and its response

vars == <<phase, client, db, collection, connectFault, uniqueIndex, docs,
          nextOid, pending, last>>

store == <<uniqueIndex, docs, nextOid>>
handles == <<client, db, collection>>

\* A request answered: the route, its path id (the body's ID for POST /, 0
\* where the route has none), the HTTP status, what the handler returned (an
\* Optional document, a list of documents) and the store operations made.
Response(op, id, st, result, calls) ==
    [op |-> op, id |-> id, status |-> st, result |-> result, calls |-> calls]

Init ==
    /\ phase = "startup"
    /\ client = "None" /\ db = "None" /\ collection = "None"
    /\ connectFault = "unrun"
    /\ uniqueIndex = FALSE
    /\ docs = <<>>
    /\ nextOid = 1
    /\ pending = {}
    /\ last = Response("none", 0, 0, None, 0)

\* ------------------------------------------------------------------ store
\* The document insert_one stores: the dumped fields plus the generated _id.
Document(oid, item_dict) ==
    [_id |-> oid, ID |-> item_dict.ID, first_name |-> item_dict.first_name,
     last_name |-> item_dict.last_name,
     phone_number |-> item_dict.phone_number, rank |-> item_dict.rank]

\* The positions of the documents matching {"ID": item_id}, {"_id": oid}.
MatchID(ds, item_id) == {i \in 1..Len(ds) : ds[i].ID = item_id}
MatchOid(ds, oid) == {i \in 1..Len(ds) : ds[i]._id = oid}

\* The first matching position in natural order, or 0 when none matches.
FirstMatch(hits) ==
    IF hits = {} THEN 0 ELSE CHOOSE i \in hits : \A j \in hits : i <= j

\* collection.find_one({"ID": item_id})
find_one_ID(ds, item_id) ==
    LET i == FirstMatch(MatchID(ds, item_id))
    IN IF i = 0 THEN None ELSE Some(ds[i])

\* collection.find_one({"_id": inserted_id})
find_one_oid(ds, inserted_id) ==
    LET i == FirstMatch(MatchOid(ds, inserted_id))
    IN IF i = 0 THEN None ELSE Some(ds[i])

\* The unique index on ID rejects an insert whose ID a stored document has.
DuplicateKeyError(ds, unique, item_dict) ==
    unique /\ \E i \in 1..Len(ds) : ds[i].ID = item_dict.ID

\* collection.insert_one(item_dict), when the store accepts it.
insert_one(ds, oid, item_dict) == Append(ds, Document(oid, item_dict))

\* {"$set": update_data} applied to one document.
SetFields(doc, update_data) ==
    [k \in DOMAIN doc |->
        IF k \in DOMAIN update_data THEN update_data[k] ELSE doc[k]]

\* collection.find_one_and_update({"ID": item_id}, {"$set": update_data},
\* return_document=True): the documents afterwards and the post-image.
find_one_and_update(ds, item_id, update_data) ==
    LET i == FirstMatch(MatchID(ds, item_id))
    IN IF i = 0 THEN [docs |-> ds, result |-> None]
       ELSE [docs |-> [ds EXCEPT ![i] = SetFields(ds[i], update_data)],
             result |-> Some(SetFields(ds[i], update_data))]

\* Mutant: delete_many, every matching document removed.
delete_many(ds, item_id) ==
    LET Keep(d) == d.ID # item_id
    IN [docs |-> SelectSeq(ds, Keep),
        deleted_count |-> Len(ds) - Len(SelectSeq(ds, Keep))]

\* collection.delete_one({"ID": item_id}): the documents afterwards and
\* delete_result.deleted_count.
delete_one(ds, item_id) ==
    LET i == FirstMatch(MatchID(ds, item_id))
    IN IF i = 0 THEN [docs |-> ds, deleted_count |-> 0]
       ELSE [docs |-> SubSeq(ds, 1, i - 1) \o SubSeq(ds, i + 1, Len(ds)),
             deleted_count |-> 1]

\* ------------------------------------------------------------------ DAL.py
\* item["_id"] = str(item["_id"])
Stringify(item) == [item EXCEPT !._id = str(@)]
StringifyOptional(item) == IF item = None THEN None ELSE Some(Stringify(item[1]))

\* What a DataLoader method does: the exception it raises ("none" when it
\* returns), the value it returns (an Optional document, a list of
\* documents), the documents afterwards and the store operations it made.
Raise(exc, calls) ==
    [exc |-> exc, value |-> None, docs |-> docs, calls |-> calls]
Return(value, ds, calls) ==
    [exc |-> "none", value |-> value, docs |-> ds, calls |-> calls]

Connected == collection # "None"

\* DataLoader.get_all_data
get_all_data(fault) ==
    IF ~Connected THEN Raise("RuntimeError", 0)
    ELSE IF fault THEN Raise("RuntimeError", 1)
    ELSE Return([i \in 1..Len(docs) |-> Stringify(docs[i])], docs, 1)

\* Mutant: the found item returned without item["_id"] = str(item["_id"]).
get_item_by_id_Raw(item_id, fault) ==
    IF ~Connected THEN Raise("RuntimeError", 0)
    ELSE IF fault THEN Raise("RuntimeError", 1)
    ELSE Return(find_one_ID(docs, item_id), docs, 1)

\* DataLoader.get_item_by_id
get_item_by_id(item_id, fault) ==
    IF ~Connected THEN Raise("RuntimeError", 0)
    ELSE IF fault THEN Raise("RuntimeError", 1)
    ELSE Return(StringifyOptional(find_one_ID(docs, item_id)), docs, 1)

\* DataLoader.update_item
update_item(item_id, item_update, fault) ==
    LET update_data == ModelDumpExcludeUnset(item_update)
        r == find_one_and_update(docs, item_id, update_data)
    IN IF ~Connected THEN Raise("RuntimeError", 0)
       ELSE IF DOMAIN update_data = {} THEN get_item_by_id(item_id, fault)
       ELSE IF fault THEN Raise("RuntimeError", 1)
       ELSE Return(StringifyOptional(r.result), r.docs, 1)

\* DataLoader.delete_item: success is <<TRUE>> or <<FALSE>> here.
delete_item(item_id, fault) ==
    LET r == delete_one(docs, item_id)
    IN IF ~Connected THEN Raise("RuntimeError", 0)
       ELSE IF fault THEN Raise("RuntimeError", 1)
       ELSE Return(Some(r.deleted_count > 0), r.docs, 1)

\* DataLoader.create_item up to the await of insert_one: "inserted" when the
\* store accepted the document and the method goes on to re-read it.
create_item_insert(item, fault) ==
    LET item_dict == ModelDump(item)
    IN IF ~Connected THEN Raise("RuntimeError", 0)
       ELSE IF fault THEN Raise("RuntimeError", 1)
       ELSE IF DuplicateKeyError(docs, uniqueIndex, item_dict)
            THEN Raise("ValueError", 1)
       ELSE [exc |-> "inserted", value |-> None,
             docs |-> insert_one(docs, ObjectId(nextOid), item_dict),
             calls |-> 1]

\* DataLoader.create_item from the await of find_one({"_id": inserted_id}).
create_item_reread(inserted_id, fault) ==
    IF fault THEN Raise("RuntimeError", 2)
    ELSE Return(StringifyOptional(find_one_oid(docs, inserted_id)), docs, 2)

\* ------------------------------------------------------------------ main.py
ConnectFaults == {"none", "client", "ping", "index"}

\* DataLoader._setup_indexes: a failing create_index is logged, not raised.
setup_indexes(coll, unique, fault) ==
    IF coll # "None"
    THEN IF fault = "index" THEN unique ELSE TRUE
    ELSE unique

\* DataLoader.connect: client, db and collection afterwards.  A failure of
\* the client or of the ping reaches the except branch; _setup_indexes runs
\* after the three handles are set and raises nothing.
connect_handles(fault) ==
    IF fault \in {"client", "ping"}
    THEN <<"None", "None", "None">>
    ELSE <<"open", "handle", "handle">>

\* lifespan, startup: one await of data_loader.connect().
connect(fault) ==
    /\ phase = "startup"
    /\ phase' = "serving"
    /\ connectFault' = fault
    /\ client' = connect_handles(fault)[1]
    /\ db' = connect_handles(fault)[2]
    /\ collection' = connect_handles(fault)[3]
    /\ uniqueIndex' = setup_indexes(connect_handles(fault)[3], uniqueIndex, fault)
    /\ UNCHANGED <<docs, nextOid, pending, last>>

\* lifespan, shutdown: DataLoader.disconnect closes the client, if any, and
\* leaves db and collection as they are.
disconnect ==
    /\ phase = "serving"
    /\ pending = {}
    /\ phase' = "shutdown"
    /\ client' = IF client # "None" THEN "closed" ELSE client
    /\ UNCHANGED <<db, collection, connectFault, store, pending, last>>

\* detailed_health_check, GET /health: the status.
detailed_health_check_route == IF collection # "None" THEN 200 ELSE 503

\* GET /health
detailed_health_check ==
    /\ phase = "serving"
    /\ last' = Response("HEALTH", 0, detailed_health_check_route, None, 0)
    /\ UNCHANGED <<phase, handles, connectFault, store, pending>>

\* ------------------------------------------------------------------ soldiers.py
\* Mutant: the comparison written soldier_id < 0, so 0 passes.
validate_soldier_id_Negative(soldier_id) == ~(soldier_id < 0)

\* validate_soldier_id: TRUE when it raises no 422.
validate_soldier_id(soldier_id) == ~(soldier_id <= 0)

\* Mutant: no except RuntimeError branch, the catch-all answers 500.
ExcStatus_CatchAll(exc) == IF exc = "ValueError" THEN 409 ELSE 500

\* The except branches of the routes: ValueError 409, RuntimeError 503.
ExcStatus(exc) == IF exc = "ValueError" THEN 409 ELSE 503

\* response_model=SoldierInDB (List[SoldierInDB] for GET /): what the handler
\* returned serialises, or the request ends 500.
ResponseModel(value) == value # None /\ SoldierInDB(value[1])
ResponseModelList(values) == \A i \in 1..Len(values) : SoldierInDB(values[i])

\* What a route does with a request: the status, the value the handler
\* returned, the store operations made and the documents afterwards.
Answer(st, result, calls, ds) ==
    [status |-> st, result |-> result, calls |-> calls, docs |-> ds]

\* read_all_soldiers, GET /
read_all_soldiers_route(fault) ==
    LET o == get_all_data(fault)
    IN Answer(IF o.exc # "none" THEN ExcStatus(o.exc)
              ELSE IF ResponseModelList(o.value) THEN 200 ELSE 500,
              o.value, o.calls, o.docs)

\* read_soldier_by_id, GET /{soldier_id}
read_soldier_by_id_route(soldier_id, fault) ==
    LET o == get_item_by_id(soldier_id, fault)
    IN IF ~validate_soldier_id(soldier_id) THEN Answer(422, None, 0, docs)
       ELSE Answer(IF o.exc # "none" THEN ExcStatus(o.exc)
                   ELSE IF o.value = None THEN 404
                   ELSE IF ResponseModel(o.value) THEN 200 ELSE 500,
                   o.value, o.calls, o.docs)

\* update_soldier, PUT /{soldier_id}
update_soldier_route(soldier_id, soldier_update, fault) ==
    LET o == update_item(soldier_id, soldier_update, fault)
    IN IF ~validate_soldier_id(soldier_id) THEN Answer(422, None, 0, docs)
       ELSE Answer(IF o.exc # "none" THEN ExcStatus(o.exc)
                   ELSE IF o.value = None THEN 404
                   ELSE IF ResponseModel(o.value) THEN 200 ELSE 500,
                   o.value, o.calls, o.docs)

\* delete_soldier, DELETE /{soldier_id}
delete_soldier_route(soldier_id, fault) ==
    LET o == delete_item(soldier_id, fault)
    IN IF ~validate_soldier_id(soldier_id) THEN Answer(422, None, 0, docs)
       ELSE Answer(IF o.exc # "none" THEN ExcStatus(o.exc)
                   ELSE IF o.value = Some(TRUE) THEN 204 ELSE 404,
                   None, o.calls, o.docs)

\* create_soldier, POST /, when create_item raises at or before insert_one.
create_soldier_route(soldier, fault) ==
    LET o == create_item_insert(soldier, fault)
    IN Answer(ExcStatus(o.exc), None, o.calls, o.docs)

\* create_soldier, POST /, from the re-read by the generated _id on.
create_soldier_return_route(inserted_id, fault) ==
    LET o == create_item_reread(inserted_id, fault)
    IN Answer(IF o.exc # "none" THEN ExcStatus(o.exc)
              ELSE IF ResponseModel(o.value) THEN 201 ELSE 500,
              o.value, o.calls, o.docs)

\* The request body fails the validation of its pydantic model: 422 before
\* the handler runs (POST / and PUT /{id}).
RequestValidationError(op, id) ==
    /\ phase = "serving"
    /\ last' = Response(op, id, 422, None, 0)
    /\ UNCHANGED <<phase, handles, connectFault, store, pending>>

\* POST /, up to the await of insert_one.
create_soldier(soldier, fault) ==
    LET o == create_item_insert(soldier, fault)
        r == create_soldier_route(soldier, fault)
    IN /\ phase = "serving"
       /\ IF o.exc = "inserted"
          THEN /\ nextOid <= MaxInserts
               /\ Cardinality(pending) < MaxPending
               /\ docs' = o.docs
               /\ nextOid' = nextOid + 1
               /\ pending' = pending \cup
                      {[soldier |-> soldier, inserted_id |-> ObjectId(nextOid)]}
               /\ UNCHANGED last
          ELSE /\ last' = Response("POST", soldier.ID, r.status, r.result,
                                   r.calls)
               /\ UNCHANGED <<docs, nextOid, pending>>
       /\ UNCHANGED <<phase, handles, connectFault, uniqueIndex>>

\* POST /, from the await of find_one by the generated _id to the response.
create_soldier_return(p, fault) ==
    LET r == create_soldier_return_route(p.inserted_id, fault)
    IN /\ phase = "serving"
       /\ p \in pending
       /\ pending' = pending \ {p}
       /\ last' = Response("POST", p.soldier.ID, r.status, r.result, r.calls)
       /\ UNCHANGED <<phase, handles, connectFault, store>>

\* GET /
read_all_soldiers(fault) ==
    LET r == read_all_soldiers_route(fault)
    IN /\ phase = "serving"
       /\ last' = Response("LIST", 0, r.status, r.result, r.calls)
       /\ UNCHANGED <<phase, handles, connectFault, store, pending>>

\* GET /{soldier_id}
read_soldier_by_id(soldier_id, fault) ==
    LET r == read_soldier_by_id_route(soldier_id, fault)
    IN /\ phase = "serving"
       /\ last' = Response("GET", soldier_id, r.status, r.result, r.calls)
       /\ UNCHANGED <<phase, handles, connectFault, store, pending>>

\* PUT /{soldier_id}
update_soldier(soldier_id, soldier_update, fault) ==
    LET r == update_soldier_route(soldier_id, soldier_update, fault)
    IN /\ phase = "serving"
       /\ last' = Response("PUT", soldier_id, r.status, r.result, r.calls)
       /\ docs' = r.docs
       /\ UNCHANGED <<phase, handles, connectFault, uniqueIndex, nextOid,
                      pending>>

\* DELETE /{soldier_id}
delete_soldier(soldier_id, fault) ==
    LET r == delete_soldier_route(soldier_id, fault)
    IN /\ phase = "serving"
       /\ last' = Response("DELETE", soldier_id, r.status, r.result, r.calls)
       /\ docs' = r.docs
       /\ UNCHANGED <<phase, handles, connectFault, uniqueIndex, nextOid,
                      pending>>

\* ------------------------------------------------------------------ behaviours
Return201 == \E p \in pending, f \in BOOLEAN : create_soldier_return(p, f)

\* Requests are served concurrently: any request may run while a create is
\* suspended between its two awaits.
Next ==
    \/ \E f \in ConnectFaults : connect(f)
    \/ disconnect
    \/ detailed_health_check
    \/ \E s \in SoldierCreate, f \in BOOLEAN : create_soldier(s, f)
    \/ Return201
    \/ \E f \in BOOLEAN : read_all_soldiers(f)
    \/ \E id \in PathIDs, f \in BOOLEAN : read_soldier_by_id(id, f)
    \/ \E id \in PathIDs, f \in BOOLEAN : delete_soldier(id, f)
    \/ \E id \in PathIDs, u \in SoldierUpdate, f \in BOOLEAN :
            update_soldier(id, u, f)
    \/ \E id \in PathIDs : RequestValidationError("PUT", id)
    \/ RequestValidationError("POST", 0)

Spec == Init /\ [][Next]_vars

\* Requests are served one at a time: a create runs both its awaits before
\* the next request starts.
Idle == pending = {}

NextSeq ==
    \/ \E f \in ConnectFaults : connect(f)
    \/ disconnect
    \/ Idle /\ detailed_health_check
    \/ Idle /\ \E s \in SoldierCreate, f \in BOOLEAN : create_soldier(s, f)
    \/ Return201
    \/ Idle /\ \E f \in BOOLEAN : read_all_soldiers(f)
    \/ Idle /\ \E id \in PathIDs, f \in BOOLEAN : read_soldier_by_id(id, f)
    \/ Idle /\ \E id \in PathIDs, f \in BOOLEAN : delete_soldier(id, f)
    \/ Idle /\ \E id \in PathIDs, u \in SoldierUpdate, f \in BOOLEAN :
            update_soldier(id, u, f)
    \/ Idle /\ \E id \in PathIDs : RequestValidationError("PUT", id)
    \/ Idle /\ RequestValidationError("POST", 0)

SpecSeq == Init /\ [][NextSeq]_vars

\* ------------------------------------------------------------------ claims
\* Some stored document has this business ID.
Stored(ds, id) == \E i \in 1..Len(ds) : ds[i].ID = id

\* The step answers a request of this route (a create's insert answers none).
Answers(op) ==
    /\ phase = "serving" /\ phase' = "serving"
    /\ nextOid' = nextOid
    /\ last'.op = op

\* C1: after connect() and any interleaving of create, update and delete, no
\* two stored records have the same ID, in every outcome of connect() that
\* leaves the service connected.
C1_UniqueID ==
    \A i, j \in 1..Len(docs) : i # j => docs[i].ID # docs[j].ID

\* C2: on a connected store a create whose ID a stored record already holds
\* (an earlier create inserted it) inserts nothing, changes no stored record
\* and, when the store answers, is answered 409.
C2_DuplicateCreateConflicts ==
    [][/\ nextOid' # nextOid => ~Stored(docs, docs'[Len(docs')].ID)
       /\ (Answers("POST") /\ pending' = pending /\ Connected
             /\ Stored(docs, last'.id) /\ last'.status # 422)
            => /\ docs' = docs
               /\ last'.status = 409 \/ (last'.status = 503 /\ last'.calls > 0)
      ]_vars

\* C8: when any step of connect() failed (the client, the ping, ensuring the
\* unique index) the client is left disconnected (no collection handle), and
\* from then on every Repository operation fails with Unavailable with no
\* store operation and the handle stays absent.
C8_FailedConnectLeavesDisconnected ==
    connectFault \in {"client", "ping", "index"} =>
        /\ collection = "None"
        /\ \A f \in BOOLEAN, id \in PathIDs :
              /\ get_all_data(f).exc = "RuntimeError"
              /\ get_item_by_id(id, f).exc = "RuntimeError"
              /\ delete_item(id, f).exc = "RuntimeError"

\* update(id, input) on the current documents: the record with business key
\* id, when there is one, gets exactly the supplied fields and is returned;
\* nothing else changes; the result is empty only when no record has id.
C3_Frame(id, u) ==
    LET o == update_item(id, u, FALSE)
        r == update_soldier_route(id, u, FALSE)
    IN /\ o.exc = "none"
       /\ Len(o.docs) = Len(docs)
       /\ IF ~Stored(docs, id)
          THEN /\ o.value = None
               /\ o.docs = docs
               /\ id > 0 => r.status = 404
          ELSE \E i \in 1..Len(docs) :
                 /\ docs[i].ID = id
                 /\ \A j \in 1..Len(docs) : j # i => o.docs[j] = docs[j]
                 /\ o.docs[i]._id = docs[i]._id
                 /\ o.docs[i].ID = docs[i].ID
                 /\ \A f \in UpdateFields :
                       o.docs[i][f] =
                           IF u[f] = Unset THEN docs[i][f] ELSE u[f][1]
                 /\ o.value = Some(Stringify(o.docs[i]))
                 /\ (\A f \in UpdateFields : u[f] = Unset) => o.docs = docs
                 /\ id > 0 => /\ r.status \in {200, 500}
                              /\ r.result = o.value
                              /\ r.docs = o.docs

\* C3: for every record and every RecordUpdate with any subset of fields set,
\* update changes exactly the supplied fields of that record to the supplied
\* values and leaves its unset fields, its ID, its storeId and every other
\* record unchanged; with no field set the store is unchanged and the current
\* record is returned; the result is empty (404 at PUT) only when no record
\* has that id.
C3_PartialUpdate ==
    Connected => \A id \in PathIDs, u \in SoldierUpdate : C3_Frame(id, u)

\* A PUT has updated one of two stored records and returned it.
C3_Witness ==
    /\ last.op = "PUT" /\ last.status = 200
    /\ Len(docs) = 2
    /\ docs[1].ID # docs[2].ID
    /\ docs[2].ID = last.id
    /\ docs[2].rank = Some("Sgt")
    /\ last.result = Some(Stringify(docs[2]))

Routes == {"POST", "LIST", "GET", "PUT", "DELETE"}
IdRoutes == {"GET", "PUT", "DELETE"}
Serving == phase = "serving"

\* C4 as stated: whenever the store is disconnected, every request to every
\* CRUD route and GET /health is answered 503, with no store operation.
C4_EveryRequest503 ==
    (Serving /\ ~Connected /\ last.op \in Routes \cup {"HEALTH"}) =>
        last.status = 503 /\ last.calls = 0

\* C4, amended: whenever the store is disconnected, every request to a CRUD
\* route that passes request validation (a valid body, and a path id > 0 on
\* the id-keyed routes) is answered 503 and GET /health is answered 503,
\* with no store operation; a request with an invalid body or a path id <= 0
\* is answered 422, with no store operation either.
C4_Disconnected503 ==
    (Serving /\ ~Connected) =>
        /\ detailed_health_check_route = 503
        /\ \A f \in BOOLEAN :
              /\ \A s \in SoldierCreate :
                    create_soldier_route(s, f) = Answer(503, None, 0, docs)
              /\ read_all_soldiers_route(f) = Answer(503, None, 0, docs)
              /\ \A id \in PathIDs :
                    LET st == IF id > 0 THEN 503 ELSE 422
                    IN /\ read_soldier_by_id_route(id, f)
                            = Answer(st, None, 0, docs)
                       /\ delete_soldier_route(id, f)
                            = Answer(st, None, 0, docs)
                       /\ \A u \in SoldierUpdate :
                            update_soldier_route(id, u, f)
                                = Answer(st, None, 0, docs)
        /\ last.op \in Routes \cup {"HEALTH"} =>
              /\ last.calls = 0
              /\ last.status \in {503, 422}
              /\ last.status = 422 =>
                    \/ last.op \in {"POST", "PUT"}
                    \/ last.op \in IdRoutes /\ last.id <= 0
              /\ (last.op \in IdRoutes /\ last.id <= 0) => last.status = 422

\* A PUT with a positive path id was answered 503 by the disconnected service.
C4_Witness ==
    /\ Serving /\ ~Connected
    /\ last.op = "PUT" /\ last.id > 0 /\ last.status = 503 /\ last.calls = 0

\* C5: on GET /{id}, PUT /{id} and DELETE /{id} a request with path id <= 0
\* is answered 422 and invokes no Repository or store operation, in every
\* connection state and for every body; the store contents are unchanged.
C5_NonPositiveId422 ==
    /\ (last.op \in IdRoutes /\ last.id <= 0) =>
          last.status = 422 /\ last.calls = 0 /\ last.result = None
    /\ \A id \in PathIDs, f \in BOOLEAN :
          id <= 0 =>
            /\ read_soldier_by_id_route(id, f) = Answer(422, None, 0, docs)
            /\ delete_soldier_route(id, f) = Answer(422, None, 0, docs)
            /\ \A u \in SoldierUpdate :
                  update_soldier_route(id, u, f) = Answer(422, None, 0, docs)

\* DELETE /0 was answered 422 while a record with ID 0 is stored.
C5_Witness ==
    /\ Connected /\ Stored(docs, 0)
    /\ last.op = "DELETE" /\ last.id = 0 /\ last.status = 422

\* The documents without the one at position i.
Without(ds, i) == SubSeq(ds, 1, i - 1) \o SubSeq(ds, i + 1, Len(ds))

\* C6: on a connected store delete(id) removes at most one record, returns
\* true exactly when a record with that ID was stored and is now removed,
\* and returns false (404 at DELETE /{id}, not 503) when no record has that
\* ID; every record with a different ID is left unchanged.
C6_Delete ==
    Connected =>
      \A id \in PathIDs :
        LET o == delete_item(id, FALSE)
            r == delete_soldier_route(id, FALSE)
            Other(d) == d.ID # id
        IN /\ o.exc = "none"
           /\ Len(o.docs) >= Len(docs) - 1
           /\ o.value = Some(Stored(docs, id))
           /\ SelectSeq(o.docs, Other) = SelectSeq(docs, Other)
           /\ IF Stored(docs, id)
              THEN \E i \in 1..Len(docs) :
                      /\ docs[i].ID = id
                      /\ o.docs = Without(docs, i)
                      /\ \A j \in 1..Len(o.docs) : o.docs[j]._id # docs[i]._id
              ELSE o.docs = docs
           /\ id > 0 =>
                r = Answer(IF Stored(docs, id) THEN 204 ELSE 404, None, 1,
                           o.docs)

\* A DELETE removed one of two stored records and left the other.
C6_Witness ==
    /\ last.op = "DELETE" /\ last.status = 204
    /\ nextOid = 3 /\ Len(docs) = 1
    /\ docs[1].ID # last.id

\* The Record of a create: the input's fields plus the generated storeId.
CreatedRecord(p) ==
    [_id |-> str(p.inserted_id), ID |-> p.soldier.ID,
     first_name |-> p.soldier.first_name, last_name |-> p.soldier.last_name,
     phone_number |-> p.soldier.phone_number, rank |-> p.soldier.rank]

\* The step is the return of the create p, and no store fault hit its re-read.
Returns(p) ==
    /\ p \in pending /\ pending' = pending \ {p}
    /\ last'.op = "POST" /\ last'.status # 503

\* No record other than the one create p inserted has its ID.
Fresh(p) ==
    \A i \in 1..Len(docs) :
        docs[i].ID = p.soldier.ID => docs[i]._id = p.inserted_id

\* getById of an ID that is not stored returns an empty result and changes
\* nothing.
C7_GetAbsent ==
    Connected =>
        \A id \in PathIDs :
            ~Stored(docs, id) =>
                get_item_by_id(id, FALSE) = Return(None, docs, 1)

\* create(input), then getById(input.ID) in the state create leaves.
C7_CreateThenGet ==
    \A p \in pending :
        (Returns(p) /\ Fresh(p)) =>
            /\ last'.status = 201
            /\ last'.result = Some(CreatedRecord(p))
            /\ get_item_by_id(p.soldier.ID, FALSE)'
                    = [exc |-> "none", value |-> last'.result, docs |-> docs',
                       calls |-> 1]
            /\ p.soldier.ID > 0 =>
                  read_soldier_by_id_route(p.soldier.ID, FALSE)'
                      = Answer(200, last'.result, 1, docs')

\* C7: round trip.  With requests served one at a time, for every valid
\* RecordCreate input whose ID is not yet stored, create(input) followed at
\* once by getById(input.ID) returns a record with the input's ID, first
\* name, last name, phone number and rank plus the generated storeId, equal
\* to the record create returned; getById of an ID that is not stored
\* returns an empty result and changes nothing.
C7_RoundTrip == []C7_GetAbsent /\ [][C7_CreateThenGet]_vars

\* A create has returned 201 and getById of its ID returns the same record,
\* beside another stored record.
C7_Witness ==
    /\ last.op = "POST" /\ last.status = 201 /\ last.id > 0
    /\ Len(docs) = 2 /\ docs[1].ID # docs[2].ID
    /\ last.result = Some(Stringify(docs[2]))
    /\ read_soldier_by_id_route(last.id, FALSE).result = last.result

\* C9: under every interleaving of concurrent requests on a connected store
\* with no store fault, a create whose insert succeeded returns the fully
\* populated Record (the input's fields plus the generated storeId, never an
\* empty result) and POST / answers 201 with it.
C9_CreateReturnsRecord ==
    [][\A p \in pending :
          Returns(p) =>
              /\ last'.status = 201
              /\ last'.result = Some(CreatedRecord(p))
      ]_vars

\* C10: after any sequence of accepted create, update and delete requests
\* every stored record is a valid response record (first name, last name and
\* rank strings, phone number an integer, none null, ID and storeId
\* present), so GET /{id} of a stored id answers 200 and never 500.
C10_StoredRecordsValid ==
    /\ \A i \in 1..Len(docs) : SoldierInDB(Stringify(docs[i]))
    /\ last.op = "GET" => last.status # 500

\* C11: every record that POST / created with 201 is reachable through the
\* id-keyed routes: every stored record has ID > 0, so GET /{ID}, PUT /{ID}
\* and DELETE /{ID} with a stored record's ID pass validate_soldier_id and
\* reach the data loader instead of answering 422.
C11_StoredRecordsReachable ==
    /\ \A i \in 1..Len(docs) :
          /\ docs[i].ID > 0
          /\ validate_soldier_id(docs[i].ID)
          /\ read_soldier_by_id_route(docs[i].ID, FALSE).status # 422
          /\ delete_soldier_route(docs[i].ID, FALSE).status # 422
          /\ \A u \in SoldierUpdate :
                update_soldier_route(docs[i].ID, u, FALSE).status # 422
    /\ (last.op = "POST" /\ last.status = 201) => last.result[1].ID > 0

====
